---- MODULE Spec2Model ----
(***************************************************************************)
(* State-machine model of pw::stream::UartDmaStreamMcuxpresso              *)
(* (pw_stream_uart_mcuxpresso/dma_stream.cc): Init / Deinit, the chunked   *)
(* DMA write path (DoWrite, TriggerWriteDma) and the completion callback   *)
(* TxRxCompletionCallback that runs in interrupt context.                  *)
(*                                                                         *)
(* Writer threads call DoWrite concurrently; one lifecycle thread calls    *)
(* Init and, at the end, the destructor.  DoRead and a completion callback *)
(* with a status other than transmit-idle do nothing to the driver; they   *)
(* are part of FullSpec.  The vendor layer (USART, DMA and INPUTMUX calls) *)
(* is the environment:                                                     *)
(* its visible state is the record hw and the transfer in flight.          *)
(* Lengths and offsets are byte counts; a buffer is identified by the      *)
(* thread that owns it.                                                    *)
(***************************************************************************)
EXTENDS Integers, Sequences, FiniteSets

\* ------------------------------------------------------------------ bounds
NumThreads == 2
MaxLen == 5
MaxChunk == 2
MaxRead == 1

Threads == 1..NumThreads

\* The size of a span passed to DoWrite is read twice: data.size() == 0 at the
\* entry and the size itself when the span is stored in tx_data_.buffer.  Until
\* the second read only its emptiness matters, so a caller's span is 0 (empty,
\* or no call), NonEmpty (non-empty, size not read yet) or its size in bytes.
NonEmpty == -1
Sizes == 0..MaxLen
None == [buf |-> 0, off |-> 0, len |-> 0]

VARIABLES
  kUsartDmaMaxTransferCount, \* the hardware's maximum single transfer length
  config_,                   \* usart_base / dma_base non-null, baud_rate
  initialized_,
  interrupt_lock_,           \* TRUE while interrupts are masked
  tx_data_,                  \* buffer, tx_idx, transfer, busy, notification
  uart_dma_handle_,          \* TRUE once USART_TransferCreateHandleDMA bound it
  hw,                        \* peripheral state the vendor calls change
  dma_inflight,              \* the transmit transfer the hardware is running
  crashed,                   \* "none", "PW_CHECK" or "fault"
  w_pc, w_data, w_ret,       \* per writer thread: position, span size, result
  i_pc, i_ret,               \* lifecycle thread: position, result of Init
  i_srcclk, i_entry_init,    \* Init's argument; initialized_ at Init's entry
  i_calls,                   \* calls Init or the destructor made (vendor
                             \* layer, interrupt lock)
  in_dtor,                   \* TRUE once the destructor has been entered
  init_ok_seen,              \* some Init call has returned OkStatus()
  tx_log,                    \* USART_TransferSendDMA calls since the last claim
  cb_owed,                   \* a started transfer's completion is outstanding
  n_release, n_acquire,      \* notification releases / acquires since the claim
  last_ignored               \* the most recent DoRead call, or callback with a
                             \* status the driver ignores, and what it did

vars == <<kUsartDmaMaxTransferCount, config_, initialized_, interrupt_lock_,
          tx_data_, uart_dma_handle_, hw, dma_inflight, crashed,
          w_pc, w_data, w_ret, i_pc, i_ret, i_srcclk, i_entry_init, i_calls,
          in_dtor, init_ok_seen, tx_log, cb_owed, n_release, n_acquire,
          last_ignored>>

writer_vars == <<w_pc, w_data, w_ret>>
init_vars == <<i_pc, i_ret, i_srcclk, i_entry_init, i_calls, in_dtor,
               init_ok_seen>>
tx_vars == <<tx_data_, dma_inflight, tx_log, cb_owed, n_release, n_acquire>>
hw_vars == <<hw, uart_dma_handle_, interrupt_lock_, initialized_>>
const_vars == <<kUsartDmaMaxTransferCount, config_>>

\* Lengths of the destination span passed to DoRead.
ReadSizes == 0..MaxRead

\* Status values the vendor layer passes to the completion callback.
CallbackStatuses == {"kStatus_USART_TxIdle", "kStatus_USART_RxIdle"}

\* A record of a call: op is the function, length the size of DoRead's span,
\* status the callback's argument, stored the number of bytes the call wrote
\* into the destination span, ret what it returned.
NoResult == [status |-> "none", size |-> 0]
NoCall == [op |-> "none", length |-> 0, status |-> "none", stored |-> 0,
           ret |-> NoResult]

Configs == [usart_base : BOOLEAN, dma_base : BOOLEAN, baud_rate : {0, 1}]

HwOff == [usart |-> FALSE, mux_rx |-> FALSE, mux_tx |-> FALSE,
          tx_ch |-> FALSE, rx_ch |-> FALSE, tx_h |-> FALSE, rx_h |-> FALSE]

Init ==
  /\ kUsartDmaMaxTransferCount \in 1..MaxChunk
  /\ config_ \in Configs
  /\ initialized_ = FALSE
  /\ interrupt_lock_ = FALSE
  /\ tx_data_ = [buffer |-> [id |-> 0, size |-> 0], tx_idx |-> 0,
                 transfer |-> [txData |-> 0, dataSize |-> 0],
                 busy |-> FALSE, notification |-> FALSE]
  /\ uart_dma_handle_ = FALSE
  /\ hw = HwOff
  /\ dma_inflight = None
  /\ crashed = "none"
  /\ w_pc = [t \in Threads |-> "idle"]
  /\ w_data = [t \in Threads |-> 0]
  /\ w_ret = [t \in Threads |-> "none"]
  /\ i_pc = "idle"
  /\ i_ret = "none"
  /\ i_srcclk = 0
  /\ i_entry_init = FALSE
  /\ i_calls = <<>>
  /\ in_dtor = FALSE
  /\ init_ok_seen = FALSE
  /\ tx_log = <<>>
  /\ cb_owed = FALSE
  /\ n_release = 0
  /\ n_acquire = 0
  /\ last_ignored = NoCall

\* A thread (or the completion interrupt) runs only while the program is alive
\* and interrupts are not masked by another context.
Running == crashed = "none"
Preemptible == Running /\ ~interrupt_lock_

\* ------------------------------------------------------- vendor layer (env)
\* USART_TransferSendDMA: with a bound handle and an idle transmitter the
\* transfer starts; with a busy transmitter it returns kStatus_USART_TxBusy and
\* starts nothing.  On a handle that was never bound the call reads an
\* indeterminate handle: it either finds it "busy" and starts nothing, or faults.
SendOutcomes ==
  IF uart_dma_handle_
    THEN IF dma_inflight = None THEN {"started"} ELSE {"txbusy"}
    ELSE {"txbusy", "fault"}

USART_TransferSendDMA(tx, outcome) ==
  /\ dma_inflight' = IF outcome = "started"
                       THEN [buf |-> tx.buffer.id, off |-> tx.transfer.txData,
                             len |-> tx.transfer.dataSize]
                       ELSE dma_inflight
  /\ crashed' = IF outcome = "fault" THEN "fault" ELSE crashed
  /\ tx_log' = Append(tx_log, <<tx.transfer.txData, tx.transfer.dataSize,
                                tx.buffer.id>>)
  /\ cb_owed' = TRUE

\* ------------------------------------------------------------------ Init
\* Mutant: the DMA-controller handle is not validated.
Init_Call_NoDmaBaseCheck(srcclk) ==
  /\ Preemptible
  /\ i_pc = "idle"
  /\ i_calls' = <<>>
  /\ i_srcclk' = srcclk
  /\ i_entry_init' = initialized_
  /\ IF srcclk = 0 \/ ~config_.usart_base \/ config_.baud_rate = 0
       THEN i_ret' = "InvalidArgument" /\ i_pc' = "idle"
       ELSE i_ret' = "none" /\ i_pc' = "usart_init"
  /\ UNCHANGED last_ignored
  /\ UNCHANGED <<const_vars, hw_vars, tx_vars, crashed, writer_vars, in_dtor,
                 init_ok_seen>>

\* Entry and argument validation (srcclk, usart_base, baud_rate, dma_base).
Init_Call(srcclk) ==
  /\ Preemptible
  /\ i_pc = "idle"
  /\ i_calls' = <<>>
  /\ i_srcclk' = srcclk
  /\ i_entry_init' = initialized_
  /\ IF srcclk = 0
       THEN i_ret' = "InvalidArgument" /\ i_pc' = "idle"
       ELSE IF ~config_.usart_base
         THEN i_ret' = "InvalidArgument" /\ i_pc' = "idle"
         ELSE IF config_.baud_rate = 0
           THEN i_ret' = "InvalidArgument" /\ i_pc' = "idle"
           ELSE IF ~config_.dma_base
             THEN i_ret' = "InvalidArgument" /\ i_pc' = "idle"
             ELSE i_ret' = "none" /\ i_pc' = "usart_init"
  /\ UNCHANGED last_ignored
  /\ UNCHANGED <<const_vars, hw_vars, tx_vars, crashed, writer_vars, in_dtor,
                 init_ok_seen>>

\* status = USART_Init(...); a failure returns Internal at once.  A failing
\* USART_Init may or may not have enabled the serial engine already.
Init_UsartInit(ok, left_on) ==
  /\ Preemptible
  /\ i_pc = "usart_init"
  /\ i_calls' = Append(i_calls, "USART_Init")
  /\ IF ok
       THEN /\ hw' = [hw EXCEPT !.usart = TRUE]
            /\ i_pc' = "lock"
            /\ i_ret' = i_ret
       ELSE /\ hw' = [hw EXCEPT !.usart = hw.usart \/ left_on]
            /\ i_pc' = "idle"
            /\ i_ret' = "Internal"
  /\ UNCHANGED last_ignored
  /\ UNCHANGED <<const_vars, uart_dma_handle_, interrupt_lock_, initialized_,
                 tx_vars, crashed, writer_vars, i_srcclk, i_entry_init,
                 in_dtor, init_ok_seen>>

\* interrupt_lock_.lock()
Init_Lock ==
  /\ Preemptible
  /\ i_pc = "lock"
  /\ interrupt_lock_' = TRUE
  /\ i_calls' = Append(i_calls, "lock")
  /\ i_pc' = "inputmux"
  /\ UNCHANGED last_ignored
  /\ UNCHANGED <<const_vars, hw, uart_dma_handle_, initialized_, tx_vars,
                 crashed, writer_vars, i_ret, i_srcclk, i_entry_init,
                 in_dtor, init_ok_seen>>

\* INPUTMUX_Init; INPUTMUX_EnableSignal (rx, tx); INPUTMUX_Deinit
Init_InputMux ==
  /\ Running
  /\ i_pc = "inputmux"
  /\ hw' = [hw EXCEPT !.mux_rx = TRUE, !.mux_tx = TRUE]
  /\ i_calls' = i_calls \o <<"INPUTMUX_EnableSignal", "INPUTMUX_EnableSignal">>
  /\ i_pc' = "enable_ch"
  /\ UNCHANGED last_ignored
  /\ UNCHANGED <<const_vars, uart_dma_handle_, interrupt_lock_, initialized_,
                 tx_vars, crashed, writer_vars, i_ret, i_srcclk,
                 i_entry_init, in_dtor, init_ok_seen>>

\* DMA_EnableChannel (tx, rx)
Init_EnableChannels ==
  /\ Running
  /\ i_pc = "enable_ch"
  /\ hw' = [hw EXCEPT !.tx_ch = TRUE, !.rx_ch = TRUE]
  /\ i_calls' = i_calls \o <<"DMA_EnableChannel", "DMA_EnableChannel">>
  /\ i_pc' = "create_handles"
  /\ UNCHANGED last_ignored
  /\ UNCHANGED <<const_vars, uart_dma_handle_, interrupt_lock_, initialized_,
                 tx_vars, crashed, writer_vars, i_ret, i_srcclk,
                 i_entry_init, in_dtor, init_ok_seen>>

\* DMA_CreateHandle (tx, rx)
Init_CreateHandles ==
  /\ Running
  /\ i_pc = "create_handles"
  /\ hw' = [hw EXCEPT !.tx_h = TRUE, !.rx_h = TRUE]
  /\ i_calls' = i_calls \o <<"DMA_CreateHandle", "DMA_CreateHandle">>
  /\ i_pc' = "unlock"
  /\ UNCHANGED last_ignored
  /\ UNCHANGED <<const_vars, uart_dma_handle_, interrupt_lock_, initialized_,
                 tx_vars, crashed, writer_vars, i_ret, i_srcclk,
                 i_entry_init, in_dtor, init_ok_seen>>

\* interrupt_lock_.unlock()
Init_Unlock ==
  /\ Running
  /\ i_pc = "unlock"
  /\ interrupt_lock_' = FALSE
  /\ i_calls' = Append(i_calls, "unlock")
  /\ i_pc' = "bind"
  /\ UNCHANGED last_ignored
  /\ UNCHANGED <<const_vars, hw, uart_dma_handle_, initialized_, tx_vars,
                 crashed, writer_vars, i_ret, i_srcclk, i_entry_init,
                 in_dtor, init_ok_seen>>

\* Mutant: a failed binding returns Internal without calling Deinit().
Init_Bind_NoRollback(ok) ==
  /\ Preemptible
  /\ i_pc = "bind"
  /\ i_calls' = Append(i_calls, "USART_TransferCreateHandleDMA")
  /\ uart_dma_handle_' = (uart_dma_handle_ \/ ok)
  /\ i_pc' = IF ok THEN "set_initialized" ELSE "idle"
  /\ i_ret' = IF ok THEN i_ret ELSE "Internal"
  /\ UNCHANGED last_ignored
  /\ UNCHANGED <<const_vars, hw, interrupt_lock_, initialized_, tx_vars,
                 crashed, writer_vars, i_srcclk, i_entry_init, in_dtor,
                 init_ok_seen>>

\* status = USART_TransferCreateHandleDMA(...); a failure goes to Deinit().
Init_Bind(ok) ==
  /\ Preemptible
  /\ i_pc = "bind"
  /\ i_calls' = Append(i_calls, "USART_TransferCreateHandleDMA")
  /\ uart_dma_handle_' = (uart_dma_handle_ \/ ok)
  /\ i_pc' = IF ok THEN "set_initialized" ELSE "deinit_lock"
  /\ UNCHANGED last_ignored
  /\ UNCHANGED <<const_vars, hw, interrupt_lock_, initialized_, tx_vars,
                 crashed, writer_vars, i_ret, i_srcclk, i_entry_init,
                 in_dtor, init_ok_seen>>

\* initialized_ = true; return OkStatus()
Init_SetInitialized ==
  /\ Preemptible
  /\ i_pc = "set_initialized"
  /\ initialized_' = TRUE
  /\ i_ret' = "Ok"
  /\ init_ok_seen' = TRUE
  /\ i_pc' = "idle"
  /\ UNCHANGED last_ignored
  /\ UNCHANGED <<const_vars, hw, uart_dma_handle_, interrupt_lock_, tx_vars,
                 crashed, writer_vars, i_srcclk, i_entry_init, i_calls,
                 in_dtor>>

\* ---------------------------------------------------------------- Deinit
\* Mutant: Deinit does not take the interrupt lock.
Deinit_Lock_NotTaken ==
  /\ Preemptible
  /\ i_pc = "deinit_lock"
  /\ i_pc' = "deinit_disable"
  /\ UNCHANGED last_ignored
  /\ UNCHANGED <<const_vars, hw, uart_dma_handle_, initialized_, tx_vars,
                 crashed, writer_vars, i_ret, i_srcclk, i_entry_init,
                 in_dtor, init_ok_seen, interrupt_lock_, i_calls>>

\* interrupt_lock_.lock()
Deinit_Lock ==
  /\ Preemptible
  /\ i_pc = "deinit_lock"
  /\ interrupt_lock_' = TRUE
  /\ i_calls' = Append(i_calls, "lock")
  /\ i_pc' = "deinit_disable"
  /\ UNCHANGED last_ignored
  /\ UNCHANGED <<const_vars, hw, uart_dma_handle_, initialized_, tx_vars,
                 crashed, writer_vars, i_ret, i_srcclk, i_entry_init,
                 in_dtor, init_ok_seen>>

\* DMA_DisableChannel (tx, rx)
Deinit_DisableChannels ==
  /\ Running
  /\ i_pc = "deinit_disable"
  /\ hw' = [hw EXCEPT !.tx_ch = FALSE, !.rx_ch = FALSE]
  /\ i_calls' = i_calls \o <<"DMA_DisableChannel", "DMA_DisableChannel">>
  /\ i_pc' = "deinit_unlock"
  /\ UNCHANGED last_ignored
  /\ UNCHANGED <<const_vars, uart_dma_handle_, interrupt_lock_, initialized_,
                 tx_vars, crashed, writer_vars, i_ret, i_srcclk,
                 i_entry_init, in_dtor, init_ok_seen>>

\* interrupt_lock_.unlock()
Deinit_Unlock ==
  /\ Running
  /\ i_pc = "deinit_unlock"
  /\ interrupt_lock_' = FALSE
  /\ i_calls' = Append(i_calls, "unlock")
  /\ i_pc' = "deinit_usart"
  /\ UNCHANGED last_ignored
  /\ UNCHANGED <<const_vars, hw, uart_dma_handle_, initialized_, tx_vars,
                 crashed, writer_vars, i_ret, i_srcclk, i_entry_init,
                 in_dtor, init_ok_seen>>

\* Mutant: Deinit marks the instance uninitialized again.
Deinit_UsartDeinit_ClearsFlag ==
  /\ Preemptible
  /\ i_pc = "deinit_usart"
  /\ hw' = [hw EXCEPT !.usart = FALSE]
  /\ i_calls' = Append(i_calls, "USART_Deinit")
  /\ initialized_' = FALSE
  /\ IF in_dtor
       THEN i_ret' = i_ret /\ i_pc' = "destroyed"
       ELSE i_ret' = "Internal" /\ i_pc' = "idle"
  /\ UNCHANGED last_ignored
  /\ UNCHANGED <<const_vars, uart_dma_handle_, interrupt_lock_, tx_vars,
                 crashed, writer_vars, i_srcclk, i_entry_init, in_dtor,
                 init_ok_seen>>

\* USART_Deinit; then back in the caller: Init returns Status::Internal(),
\* the destructor ends.
Deinit_UsartDeinit ==
  /\ Preemptible
  /\ i_pc = "deinit_usart"
  /\ hw' = [hw EXCEPT !.usart = FALSE]
  /\ i_calls' = Append(i_calls, "USART_Deinit")
  /\ IF in_dtor
       THEN i_ret' = i_ret /\ i_pc' = "destroyed"
       ELSE i_ret' = "Internal" /\ i_pc' = "idle"
  /\ UNCHANGED last_ignored
  /\ UNCHANGED <<const_vars, uart_dma_handle_, interrupt_lock_, initialized_,
                 tx_vars, crashed, writer_vars, i_srcclk, i_entry_init,
                 in_dtor, init_ok_seen>>

\* ------------------------------------------------------------ destructor
\* Mutant: the destructor calls Deinit() whatever initialized_ is.
Destructor_Call_NoGuard ==
  /\ Preemptible
  /\ i_pc = "idle"
  /\ \A t \in Threads : w_pc[t] = "idle"
  /\ in_dtor' = TRUE
  /\ i_calls' = <<>>
  /\ i_pc' = "deinit_lock"
  /\ UNCHANGED last_ignored
  /\ UNCHANGED <<const_vars, hw_vars, tx_vars, crashed, writer_vars, i_ret,
                 i_srcclk, i_entry_init, init_ok_seen>>

\* ~UartDmaStreamMcuxpresso(): if (!initialized_) return; Deinit().  The
\* object is destroyed by the lifecycle thread when no call on it is in
\* progress; no call starts on it afterwards.
Destructor_Call ==
  /\ Preemptible
  /\ i_pc = "idle"
  /\ \A t \in Threads : w_pc[t] = "idle"
  /\ in_dtor' = TRUE
  /\ i_calls' = <<>>
  /\ i_pc' = IF ~initialized_ THEN "destroyed" ELSE "deinit_lock"
  /\ UNCHANGED last_ignored
  /\ UNCHANGED <<const_vars, hw_vars, tx_vars, crashed, writer_vars, i_ret,
                 i_srcclk, i_entry_init, init_ok_seen>>

\* ------------------------------------------------------- TriggerWriteDma
\* Mutant: the chunk address is not advanced by the cursor.
TriggerWriteDma_NoOffset(tx) ==
  [tx EXCEPT !.transfer =
     [txData |-> 0,
      dataSize |-> IF tx.tx_idx + kUsartDmaMaxTransferCount > tx.buffer.size
                     THEN tx.buffer.size - tx.tx_idx
                     ELSE kUsartDmaMaxTransferCount]]

\* Mutant: the chunk length is not clamped to the bytes that remain.
TriggerWriteDma_NoClamp(tx) ==
  [tx EXCEPT !.transfer =
     [txData |-> tx.tx_idx, dataSize |-> kUsartDmaMaxTransferCount]]

\* The transfer descriptor TriggerWriteDma programs for the record tx.
TriggerWriteDma(tx) ==
  [tx EXCEPT !.transfer =
     [txData |-> tx.tx_idx,
      dataSize |-> IF tx.tx_idx + kUsartDmaMaxTransferCount > tx.buffer.size
                     THEN tx.buffer.size - tx.tx_idx
                     ELSE kUsartDmaMaxTransferCount]]

\* ------------------------------------------------------------- DoWrite
\* Mutant: no empty check, an empty span goes on to the busy test.
DoWrite_Call_NoEmptyCheck(t, empty) ==
  /\ Preemptible
  /\ ~in_dtor
  /\ w_pc[t] = "idle"
  /\ w_data' = [w_data EXCEPT ![t] = IF empty THEN 0 ELSE NonEmpty]
  /\ w_ret' = [w_ret EXCEPT ![t] = "none"]
  /\ w_pc' = [w_pc EXCEPT ![t] = "exchange"]
  /\ UNCHANGED last_ignored
  /\ UNCHANGED <<const_vars, hw_vars, tx_vars, crashed, init_vars>>

\* Entry: the empty check (data.size() == 0) reads only the argument.
DoWrite_Call(t, empty) ==
  /\ Preemptible
  /\ ~in_dtor
  /\ w_pc[t] = "idle"
  /\ w_data' = [w_data EXCEPT ![t] = IF empty THEN 0 ELSE NonEmpty]
  /\ IF empty
       THEN /\ w_ret' = [w_ret EXCEPT ![t] = "InvalidArgument"]
            /\ w_pc' = w_pc
       ELSE /\ w_ret' = [w_ret EXCEPT ![t] = "none"]
            /\ w_pc' = [w_pc EXCEPT ![t] = "exchange"]
  /\ UNCHANGED last_ignored
  /\ UNCHANGED <<const_vars, hw_vars, tx_vars, crashed, init_vars>>

\* Mutant: the result of the exchange is ignored, every caller proceeds.
DoWrite_Exchange_NoTest(t) ==
  /\ Preemptible
  /\ w_pc[t] = "exchange"
  /\ tx_data_' = [tx_data_ EXCEPT !.busy = TRUE]
  /\ w_pc' = [w_pc EXCEPT ![t] = "store_buffer"]
  /\ tx_log' = <<>>
  /\ n_release' = 0
  /\ n_acquire' = 0
  /\ UNCHANGED <<w_ret, w_data>>
  /\ UNCHANGED last_ignored
  /\ UNCHANGED <<const_vars, hw_vars, dma_inflight, cb_owed, crashed,
                 init_vars>>

\* Mutant: the buffer and cursor are stored before the busy test.
DoWrite_Exchange_StoreFirst(t) ==
  /\ Preemptible
  /\ w_pc[t] = "exchange"
  /\ IF tx_data_.busy
       THEN /\ w_ret' = [w_ret EXCEPT ![t] = "FailedPrecondition"]
            /\ w_pc' = [w_pc EXCEPT ![t] = "idle"]
            /\ w_data' = [w_data EXCEPT ![t] = 0]
            /\ tx_data_' = [tx_data_ EXCEPT
                              !.buffer = [id |-> t, size |-> 1],
                              !.tx_idx = 0]
            /\ UNCHANGED <<tx_log, n_release, n_acquire>>
       ELSE /\ tx_data_' = [tx_data_ EXCEPT !.busy = TRUE]
            /\ w_pc' = [w_pc EXCEPT ![t] = "store_buffer"]
            /\ tx_log' = <<>>
            /\ n_release' = 0
            /\ n_acquire' = 0
            /\ UNCHANGED <<w_ret, w_data>>
  /\ UNCHANGED last_ignored
  /\ UNCHANGED <<const_vars, hw_vars, dma_inflight, cb_owed, crashed,
                 init_vars>>

\* was_busy = tx_data_.busy.exchange(true); if (was_busy) return
\* FailedPrecondition.  The logs of the write start afresh at a claim.
DoWrite_Exchange(t) ==
  /\ Preemptible
  /\ w_pc[t] = "exchange"
  /\ IF tx_data_.busy
       THEN /\ w_ret' = [w_ret EXCEPT ![t] = "FailedPrecondition"]
            /\ w_pc' = [w_pc EXCEPT ![t] = "idle"]
            /\ w_data' = [w_data EXCEPT ![t] = 0]
            /\ UNCHANGED <<tx_data_, tx_log, n_release, n_acquire>>
       ELSE /\ tx_data_' = [tx_data_ EXCEPT !.busy = TRUE]
            /\ w_pc' = [w_pc EXCEPT ![t] = "store_buffer"]
            /\ tx_log' = <<>>
            /\ n_release' = 0
            /\ n_acquire' = 0
            /\ UNCHANGED <<w_ret, w_data>>
  /\ UNCHANGED last_ignored
  /\ UNCHANGED <<const_vars, hw_vars, dma_inflight, cb_owed, crashed,
                 init_vars>>

\* tx_data_.buffer = data (the span's size is read here)
DoWrite_StoreBuffer(t, size) ==
  /\ Preemptible
  /\ w_pc[t] = "store_buffer"
  /\ IF w_data[t] = NonEmpty THEN size >= 1 ELSE size = w_data[t]
  /\ w_data' = [w_data EXCEPT ![t] = size]
  /\ tx_data_' = [tx_data_ EXCEPT !.buffer = [id |-> t, size |-> size]]
  /\ w_pc' = [w_pc EXCEPT ![t] = "store_idx"]
  /\ UNCHANGED last_ignored
  /\ UNCHANGED <<const_vars, hw_vars, dma_inflight, tx_log, cb_owed,
                 n_release, n_acquire, crashed, w_ret, init_vars>>

\* tx_data_.tx_idx = 0
DoWrite_StoreIdx(t) ==
  /\ Preemptible
  /\ w_pc[t] = "store_idx"
  /\ tx_data_' = [tx_data_ EXCEPT !.tx_idx = 0]
  /\ w_pc' = [w_pc EXCEPT ![t] = "trigger"]
  /\ UNCHANGED last_ignored
  /\ UNCHANGED <<const_vars, hw_vars, dma_inflight, tx_log, cb_owed,
                 n_release, n_acquire, crashed, w_data, w_ret, init_vars>>

\* TriggerWriteDma() called from the writer thread
DoWrite_Trigger(t) ==
  /\ Preemptible
  /\ w_pc[t] = "trigger"
  /\ tx_data_' = TriggerWriteDma(tx_data_)
  /\ \E outcome \in SendOutcomes : USART_TransferSendDMA(tx_data_', outcome)
  /\ w_pc' = [w_pc EXCEPT ![t] = "acquire"]
  /\ UNCHANGED last_ignored
  /\ UNCHANGED <<const_vars, hw_vars, n_release, n_acquire, w_data, w_ret,
                 init_vars>>

\* Mutant: try_acquire() in place of acquire(): the caller does not wait.
DoWrite_Acquire_NoWait(t) ==
  /\ Preemptible
  /\ w_pc[t] = "acquire"
  /\ tx_data_' = [tx_data_ EXCEPT !.notification = FALSE]
  /\ n_acquire' = IF tx_data_.notification THEN n_acquire + 1 ELSE n_acquire
  /\ w_pc' = [w_pc EXCEPT ![t] = "store_busy"]
  /\ UNCHANGED last_ignored
  /\ UNCHANGED <<const_vars, hw_vars, dma_inflight, tx_log, cb_owed,
                 n_release, crashed, w_data, w_ret, init_vars>>

\* Mutant: a signal that came before the wait began is discarded and the
\* thread waits for a new one.
DoWrite_Acquire_WaitsForNewSignal(t) ==
  /\ Preemptible
  /\ w_pc[t] = "acquire"
  /\ tx_data_.notification
  /\ tx_data_' = [tx_data_ EXCEPT !.notification = FALSE]
  /\ UNCHANGED last_ignored
  /\ UNCHANGED <<const_vars, hw_vars, dma_inflight, tx_log, cb_owed,
                 n_release, n_acquire, crashed, writer_vars, init_vars>>

\* Mutant: acquire() returns once the notification is set but leaves it set.
DoWrite_Acquire_LeavesSignal(t) ==
  /\ Preemptible
  /\ w_pc[t] = "acquire"
  /\ tx_data_.notification
  /\ n_acquire' = n_acquire + 1
  /\ w_pc' = [w_pc EXCEPT ![t] = "store_busy"]
  /\ UNCHANGED last_ignored
  /\ UNCHANGED <<const_vars, hw_vars, tx_data_, dma_inflight, tx_log, cb_owed,
                 n_release, crashed, w_data, w_ret, init_vars>>

\* Mutant: try_acquire_for() in place of acquire(): the wait can time out.
DoWrite_Acquire_WithTimeout(t) ==
  /\ Preemptible
  /\ w_pc[t] = "acquire"
  /\ IF tx_data_.notification
       THEN /\ tx_data_' = [tx_data_ EXCEPT !.notification = FALSE]
            /\ n_acquire' = n_acquire + 1
       ELSE UNCHANGED <<tx_data_, n_acquire>>
  /\ w_pc' = [w_pc EXCEPT ![t] = "store_busy"]
  /\ UNCHANGED last_ignored
  /\ UNCHANGED <<const_vars, hw_vars, dma_inflight, tx_log, cb_owed,
                 n_release, crashed, w_data, w_ret, init_vars>>

\* tx_data_.notification.acquire(): blocks until the notification is set,
\* then consumes it.
DoWrite_Acquire(t) ==
  /\ Preemptible
  /\ w_pc[t] = "acquire"
  /\ tx_data_.notification
  /\ tx_data_' = [tx_data_ EXCEPT !.notification = FALSE]
  /\ n_acquire' = n_acquire + 1
  /\ w_pc' = [w_pc EXCEPT ![t] = "store_busy"]
  /\ UNCHANGED last_ignored
  /\ UNCHANGED <<const_vars, hw_vars, dma_inflight, tx_log, cb_owed,
                 n_release, crashed, w_data, w_ret, init_vars>>

\* Mutant: the busy flag is not cleared before the return.
DoWrite_StoreBusy_NoClear(t) ==
  /\ Preemptible
  /\ w_pc[t] = "store_busy"
  /\ w_ret' = [w_ret EXCEPT ![t] = "Ok"]
  /\ w_pc' = [w_pc EXCEPT ![t] = "idle"]
  /\ w_data' = [w_data EXCEPT ![t] = 0]
  /\ UNCHANGED last_ignored
  /\ UNCHANGED <<const_vars, hw_vars, tx_vars, crashed, init_vars>>

\* tx_data_.busy.store(false); return OkStatus()
DoWrite_StoreBusy(t) ==
  /\ Preemptible
  /\ w_pc[t] = "store_busy"
  /\ tx_data_' = [tx_data_ EXCEPT !.busy = FALSE]
  /\ w_ret' = [w_ret EXCEPT ![t] = "Ok"]
  /\ w_pc' = [w_pc EXCEPT ![t] = "idle"]
  /\ w_data' = [w_data EXCEPT ![t] = 0]
  /\ UNCHANGED last_ignored
  /\ UNCHANGED <<const_vars, hw_vars, dma_inflight, tx_log, cb_owed,
                 n_release, n_acquire, crashed, init_vars>>

\* ------------------------------------------------ TxRxCompletionCallback
\* Mutant: the notification is released after every chunk.
CallbackTxIdle_ReleaseEachChunk ==
  LET idx == tx_data_.tx_idx + tx_data_.transfer.dataSize
      adv == [tx_data_ EXCEPT !.tx_idx = idx, !.notification = TRUE]
  IN  /\ n_release' = n_release + 1
      /\ IF idx = tx_data_.buffer.size
           THEN /\ tx_data_' = adv
                /\ dma_inflight' = None
                /\ cb_owed' = FALSE
                /\ UNCHANGED <<tx_log, crashed>>
           ELSE /\ tx_data_' = TriggerWriteDma(adv)
                /\ USART_TransferSendDMA(tx_data_', "started")

\* Mutant: the last chunk's completion does not release the notification.
CallbackTxIdle_NoRelease ==
  LET idx == tx_data_.tx_idx + tx_data_.transfer.dataSize
      adv == [tx_data_ EXCEPT !.tx_idx = idx]
  IN  IF idx >= tx_data_.buffer.size
        THEN /\ tx_data_' = adv
             /\ dma_inflight' = None
             /\ cb_owed' = FALSE
             /\ UNCHANGED <<tx_log, crashed, n_release>>
        ELSE /\ tx_data_' = TriggerWriteDma(adv)
             /\ USART_TransferSendDMA(tx_data_', "started")
             /\ UNCHANGED n_release

\* Mutant: the callback re-triggers without advancing the cursor.
CallbackTxIdle_NoAdvance ==
  IF tx_data_.tx_idx + tx_data_.transfer.dataSize = tx_data_.buffer.size
    THEN /\ tx_data_' = [tx_data_ EXCEPT !.notification = TRUE,
                                          !.tx_idx = tx_data_.buffer.size]
         /\ n_release' = n_release + 1
         /\ dma_inflight' = None
         /\ cb_owed' = FALSE
         /\ UNCHANGED <<tx_log, crashed>>
    ELSE /\ tx_data_' = TriggerWriteDma(tx_data_)
         /\ USART_TransferSendDMA(tx_data_', "started")
         /\ UNCHANGED n_release

\* The body of the callback for status == kStatus_USART_TxIdle.  The vendor
\* interrupt handler has set the transmitter idle before it calls back, so a
\* re-trigger from here starts at once.
CallbackTxIdle ==
  LET idx == tx_data_.tx_idx + tx_data_.transfer.dataSize
      adv == [tx_data_ EXCEPT !.tx_idx = idx]
  IN  IF idx = tx_data_.buffer.size
        THEN /\ tx_data_' = [adv EXCEPT !.notification = TRUE]
             /\ n_release' = n_release + 1
             /\ dma_inflight' = None
             /\ cb_owed' = FALSE
             /\ UNCHANGED <<tx_log, crashed>>
        ELSE IF ~(idx < tx_data_.buffer.size)
          THEN \* PW_CHECK_INT_LT fails: the program aborts
               /\ tx_data_' = adv
               /\ crashed' = "PW_CHECK"
               /\ dma_inflight' = None
               /\ cb_owed' = FALSE
               /\ UNCHANGED <<tx_log, n_release>>
          ELSE /\ tx_data_' = TriggerWriteDma(adv)
               /\ USART_TransferSendDMA(tx_data_', "started")
               /\ UNCHANGED n_release

\* The hardware finishes the transfer in flight (the serial engine and the
\* transmit DMA channel must be enabled for it to move data) and raises the
\* completion interrupt, which invokes the callback with kStatus_USART_TxIdle.
TxRxCompletionCallback ==
  /\ Preemptible
  /\ dma_inflight # None
  /\ hw.usart /\ hw.tx_ch
  /\ CallbackTxIdle
  /\ UNCHANGED last_ignored
  /\ UNCHANGED <<const_vars, hw_vars, n_acquire, writer_vars, init_vars>>

\* Mutant: a callback with another status runs the transmit-idle branch too.
TxRxCompletionCallback_Other_NoStatusTest(status) ==
  /\ Preemptible
  /\ uart_dma_handle_
  /\ status # "kStatus_USART_TxIdle"
  /\ last_ignored' = [NoCall EXCEPT !.op = "TxRxCompletionCallback",
                                     !.status = status]
  /\ CallbackTxIdle
  /\ UNCHANGED <<const_vars, hw_vars, n_acquire, writer_vars, init_vars>>

\* The callback invoked with a status other than kStatus_USART_TxIdle (the
\* vendor layer reports a receive completion through the same callback): the
\* test at its head fails and it returns.  It can be invoked once
\* USART_TransferCreateHandleDMA has registered it.
TxRxCompletionCallback_Other(status) ==
  /\ Preemptible
  /\ uart_dma_handle_
  /\ status # "kStatus_USART_TxIdle"
  /\ last_ignored' = [NoCall EXCEPT !.op = "TxRxCompletionCallback",
                                     !.status = status]
  /\ UNCHANGED <<const_vars, hw_vars, tx_vars, crashed, writer_vars,
                 init_vars>>

\* ---------------------------------------------------------------- DoRead
\* StatusWithSize(length): an OK status that carries length.
StatusWithSize(length) == [status |-> "Ok", size |-> length]

\* Mutant: the stub reports that nothing was read.
DoRead_ReportsZero(length) ==
  /\ Preemptible
  /\ ~in_dtor
  /\ last_ignored' = [NoCall EXCEPT !.op = "DoRead", !.length = length,
                                     !.ret = StatusWithSize(0)]
  /\ UNCHANGED <<const_vars, hw_vars, tx_vars, crashed, writer_vars,
                 init_vars>>

\* size_t length = data.size(); return StatusWithSize(length).  Nothing is
\* stored through data.  The caller is any thread that is not inside a call.
DoRead(length) ==
  /\ Preemptible
  /\ ~in_dtor
  /\ last_ignored' = [NoCall EXCEPT !.op = "DoRead", !.length = length,
                                     !.ret = StatusWithSize(length)]
  /\ UNCHANGED <<const_vars, hw_vars, tx_vars, crashed, writer_vars,
                 init_vars>>

Next ==
  \/ \E t \in Threads, empty \in BOOLEAN : DoWrite_Call(t, empty)
  \/ \E t \in Threads : DoWrite_Exchange(t)
  \/ \E t \in Threads, size \in Sizes : DoWrite_StoreBuffer(t, size)
  \/ \E t \in Threads : DoWrite_StoreIdx(t)
  \/ \E t \in Threads : DoWrite_Trigger(t)
  \/ \E t \in Threads : DoWrite_Acquire(t)
  \/ \E t \in Threads : DoWrite_StoreBusy(t)
  \/ TxRxCompletionCallback
  \/ \E srcclk \in {0, 1} : Init_Call(srcclk)
  \/ \E ok \in BOOLEAN, left_on \in BOOLEAN : Init_UsartInit(ok, left_on)
  \/ Init_Lock
  \/ Init_InputMux
  \/ Init_EnableChannels
  \/ Init_CreateHandles
  \/ Init_Unlock
  \/ \E ok \in BOOLEAN : Init_Bind(ok)
  \/ Init_SetInitialized
  \/ Deinit_Lock
  \/ Deinit_DisableChannels
  \/ Deinit_Unlock
  \/ Deinit_UsartDeinit
  \/ Destructor_Call

Spec == Init /\ [][Next]_vars

\* The driver together with the calls it ignores.  DoRead and a callback with
\* another status change last_ignored only, and no action reads it: for every
\* other variable their steps are stuttering steps of Spec.
FullNext ==
  \/ Next
  \/ \E status \in CallbackStatuses : TxRxCompletionCallback_Other(status)
  \/ \E length \in ReadSizes : DoRead(length)

FullSpec == Init /\ [][FullNext]_vars
\* =================================================================== claims
Min(a, b) == IF a < b THEN a ELSE b
Ceil(a, b) == (a + b - 1) \div b

\* Thread t is between its claim of the busy flag and its clearing of it.
InWrite(t) ==
  w_pc[t] \in {"store_buffer", "store_idx", "trigger", "acquire", "store_busy"}

\* The k-th (k = 1, 2, ...) transfer start of a write of len bytes by thread t.
ExpectedStart(k, len, t) ==
  <<(k - 1) * kUsartDmaMaxTransferCount,
    Min(kUsartDmaMaxTransferCount, len - (k - 1) * kUsartDmaMaxTransferCount),
    t>>

\* C1: when a Write of a non-empty buffer of len bytes is about to return
\* success (its wait has returned), exactly ceil(len / M) transfers were
\* started, the k-th at offset k*M with length min(M, len - k*M), so offsets
\* strictly increase, and the cursor equals len; while the write waits with a
\* transfer in flight the cursor is the offset of that transfer (M, 2M, ...
\* after each callback).
C1_ChunkedTransfers ==
  \A t \in Threads :
    /\ w_pc[t] = "store_busy" =>
         /\ w_data[t] >= 1
         /\ Len(tx_log) = Ceil(w_data[t], kUsartDmaMaxTransferCount)
         /\ \A k \in 1..Len(tx_log) : tx_log[k] = ExpectedStart(k, w_data[t], t)
         /\ \A k \in 2..Len(tx_log) : tx_log[k][1] > tx_log[k - 1][1]
         /\ tx_data_.tx_idx = w_data[t]
    /\ (w_pc[t] = "acquire" /\ dma_inflight # None) =>
         /\ tx_data_.tx_idx = (Len(tx_log) - 1) * kUsartDmaMaxTransferCount
         /\ tx_log[Len(tx_log)] = ExpectedStart(Len(tx_log), w_data[t], t)

\* The 2.5 x max-chunk scenario: 5 bytes with M = 2 finished in three transfers.
C1_Witness ==
  \E t \in Threads :
    /\ w_pc[t] = "store_busy"
    /\ w_data[t] = 5
    /\ kUsartDmaMaxTransferCount = 2
    /\ tx_log = <<<<0, 2, t>>, <<2, 2, t>>, <<4, 1, t>>>>

\* C2: at most one Write call at a time is between its claim of the busy flag
\* and its clearing of it, and the flag is set exactly while there is one.
C2_OneWriterOwnsTx ==
  /\ Cardinality({t \in Threads : InWrite(t)}) <= 1
  /\ tx_data_.busy <=> (\E t \in Threads : InWrite(t))

\* One thread owns the transmit record while another is at the exchange.
C2_Witness ==
  \E t, u \in Threads :
    /\ t # u
    /\ w_pc[t] = "acquire"
    /\ dma_inflight # None
    /\ w_pc[u] = "exchange"

\* C3: a Write of a non-empty buffer that finds the busy flag set returns
\* FailedPrecondition in that very step (it never waits), starts no transfer
\* and leaves the buffer reference, cursor, chunk descriptor, notification and
\* busy flag (still true) of the write in flight unchanged; neither does its
\* entry change any of them.
C3_BusyWriteRejected ==
  [][\A t \in Threads :
       /\ (w_pc[t] = "exchange" /\ tx_data_.busy /\ w_pc'[t] # "exchange") =>
            /\ w_pc'[t] = "idle"
            /\ w_ret'[t] = "FailedPrecondition"
            /\ tx_data_'.busy
            /\ UNCHANGED <<tx_data_, dma_inflight, tx_log, cb_owed>>
       /\ (w_pc[t] = "idle" /\ w_pc'[t] # "idle") =>
            /\ w_pc'[t] = "exchange"
            /\ UNCHANGED <<tx_data_, dma_inflight, tx_log, cb_owed>>
    ]_vars

\* A second caller was turned away while the first write still has a chunk in
\* flight.
C3_Witness ==
  \E t, u \in Threads :
    /\ t # u
    /\ w_ret[u] = "FailedPrecondition"
    /\ w_pc[u] = "idle"
    /\ w_pc[t] = "acquire"
    /\ dma_inflight # None
    /\ tx_data_.tx_idx > 0
\* C4: a Write with an empty buffer returns InvalidArgument in its first step,
\* never reaches the busy test, starts no transfer and changes no shared state
\* (busy flag, buffer reference, cursor, descriptor, notification), whatever
\* the state of the driver; only a non-empty buffer goes on to the exchange.
C4_EmptyWriteRejected ==
  [][\A t \in Threads :
       /\ (w_pc[t] = "idle" /\ w_pc'[t] = "idle"
             /\ <<w_ret[t], w_data[t]>>' # <<w_ret[t], w_data[t]>>) =>
            /\ w_ret'[t] = "InvalidArgument"
            /\ UNCHANGED <<tx_data_, dma_inflight, tx_log, cb_owed>>
       /\ (w_pc[t] = "idle" /\ w_pc'[t] # "idle") => w_data'[t] = NonEmpty
       /\ w_ret'[t] = "InvalidArgument" => w_data'[t] = 0
       /\ InWrite(t)' => w_data'[t] # 0
    ]_vars

\* An empty Write was rejected with InvalidArgument (not FailedPrecondition)
\* while another thread's write has a chunk in flight.
C4_Witness ==
  \E t, u \in Threads :
    /\ t # u
    /\ w_ret[u] = "InvalidArgument"
    /\ w_pc[u] = "idle"
    /\ tx_data_.busy
    /\ w_pc[t] = "acquire"
    /\ dma_inflight # None

\* C5: between a claim of the busy flag and the next one the notification is
\* released at most once and acquired at most once, never acquired before it
\* is released, and released only with the cursor equal to the buffer length;
\* a Write that is about to return has seen exactly one release and one
\* acquire.
C5_NotifiedOncePerWrite ==
  /\ n_release <= 1
  /\ n_acquire <= n_release
  /\ n_release >= 1 => tx_data_.tx_idx = tx_data_.buffer.size
  /\ tx_data_.notification =>
       /\ n_release = 1 /\ n_acquire = 0
       /\ tx_data_.busy
       /\ tx_data_.tx_idx = tx_data_.buffer.size
  /\ \A t \in Threads :
       w_pc[t] = "store_busy" =>
         n_release = 1 /\ n_acquire = 1 /\ ~tx_data_.notification

\* The signal of a multi-chunk write is pending: released by the last
\* callback and not yet consumed by the writer.
C5_Witness ==
  \E t \in Threads :
    /\ w_pc[t] = "acquire"
    /\ tx_data_.notification
    /\ Len(tx_log) >= 2
    /\ n_release = 1

\* C6: a transfer is in flight only for the buffer of a thread that is blocked
\* inside Write on that buffer, so when a Write returns success the cursor
\* equals the buffer length, nothing is in flight, and nothing that points into
\* the buffer starts until its owner calls Write again.
C6_BufferBorrowedForOneWrite ==
  /\ \A t \in Threads :
       w_pc[t] = "store_busy" =>
         /\ tx_data_.tx_idx = tx_data_.buffer.size
         /\ tx_data_.buffer = [id |-> t, size |-> w_data[t]]
         /\ dma_inflight = None
         /\ ~cb_owed
  /\ dma_inflight # None =>
       /\ dma_inflight.buf \in Threads
       /\ w_pc[dma_inflight.buf] = "acquire"
       /\ tx_data_.buffer.id = dma_inflight.buf
       /\ dma_inflight.off + dma_inflight.len <= w_data[dma_inflight.buf]

\* After a write returned success the record still names the caller's buffer,
\* with nothing in flight and no writer active.
C6_Witness ==
  \E t \in Threads :
    /\ w_ret[t] = "Ok"
    /\ \A u \in Threads : w_pc[u] = "idle"
    /\ tx_data_.buffer.id = t
    /\ tx_data_.buffer.size >= 3
    /\ dma_inflight = None
\* -------------------------------------------------------------- liveness
\* Every thread that is inside a call keeps being scheduled.  A writer cannot
\* run while the lifecycle thread masks interrupts, so its steps are strongly
\* fair: it runs if it can run again and again.  The steps of Init and Deinit
\* after the entry are taken if they stay enabled.  The completion interrupt is
\* left to the hardware: nothing here says it ever comes.
WriterStep(t) ==
  \/ DoWrite_Exchange(t)
  \/ \E size \in Sizes : DoWrite_StoreBuffer(t, size)
  \/ DoWrite_StoreIdx(t)
  \/ DoWrite_Trigger(t)
  \/ DoWrite_Acquire(t)
  \/ DoWrite_StoreBusy(t)

LifecycleStep ==
  \/ \E ok \in BOOLEAN, left_on \in BOOLEAN : Init_UsartInit(ok, left_on)
  \/ Init_Lock
  \/ Init_InputMux
  \/ Init_EnableChannels
  \/ Init_CreateHandles
  \/ Init_Unlock
  \/ \E ok \in BOOLEAN : Init_Bind(ok)
  \/ Init_SetInitialized
  \/ Deinit_Lock
  \/ Deinit_DisableChannels
  \/ Deinit_Unlock
  \/ Deinit_UsartDeinit

LiveSpec ==
  /\ Spec
  /\ \A t \in Threads : SF_vars(WriterStep(t))
  /\ WF_vars(LifecycleStep)

\* The hardware reports transmit-idle completion for every transfer the driver
\* starts: it is not the case that from some point on a completion stays owed
\* and the callback never runs again.
HardwareReportsEveryTransfer ==
  \/ []<>(~cb_owed)
  \/ []<><<TxRxCompletionCallback>>_vars

\* C7: if the hardware reports completion of every transfer the driver starts,
\* every Write that has claimed the busy flag eventually returns success.
C7_ClaimedWriteReturns ==
  HardwareReportsEveryTransfer =>
    \A t \in Threads :
      InWrite(t) ~> (w_pc[t] = "idle" /\ w_ret[t] = "Ok")

\* Both threads have had a write return success.
C7_Witness ==
  /\ \A t \in Threads : w_ret[t] = "Ok" /\ w_pc[t] = "idle"
  /\ ~tx_data_.busy
  /\ ~cb_owed
\* C8: the step in which a Write returns success leaves the busy flag false,
\* and a Write of a non-empty buffer that reaches the exchange while no other
\* thread is inside a claimed Write claims the flag instead of returning
\* FailedPrecondition, however many writes came before.
C8_BusyClearedOnReturn ==
  [][\A t \in Threads :
       /\ (w_pc[t] = "store_busy" /\ w_pc'[t] # "store_busy") =>
            /\ w_pc'[t] = "idle"
            /\ w_ret'[t] = "Ok"
            /\ ~tx_data_'.busy
       /\ w_ret'[t] = "Ok" /\ (\A u \in Threads : ~InWrite(u)') =>
            ~tx_data_'.busy
       /\ (w_pc[t] = "exchange" /\ w_pc'[t] # "exchange"
             /\ \A u \in Threads : ~InWrite(u)) =>
            /\ w_pc'[t] = "store_buffer"
            /\ w_ret'[t] # "FailedPrecondition"
            /\ tx_data_'.busy
    ]_vars

\* A thread has claimed the flag again after its own earlier write of three or
\* more bytes completed (the record still shows that write, fully sent).
C8_Witness ==
  \E t \in Threads :
    /\ w_pc[t] = "store_buffer"
    /\ tx_data_.buffer.id = t
    /\ tx_data_.buffer.size >= 3
    /\ tx_data_.tx_idx = tx_data_.buffer.size
    /\ tx_data_.busy
    /\ tx_log = <<>>

\* The arguments Init rejects: a zero clock, a null serial-engine or
\* DMA-controller handle, a zero baud rate.
BadInitInput ==
  \/ i_srcclk = 0
  \/ ~config_.usart_base
  \/ ~config_.dma_base
  \/ config_.baud_rate = 0

\* C9: Init returns InvalidArgument exactly when the clock frequency is zero,
\* the serial-engine handle is null, the DMA-controller handle is null or the
\* baud rate is zero; it then has made no vendor call, has not taken the
\* interrupt lock, and has left the initialized flag as it found it (false on
\* an instance that was never initialized).  With such input Init never gets
\* past its entry.
C9_InitRejectsBadInput ==
  /\ (i_pc = "idle" /\ i_ret # "none") =>
       (i_ret = "InvalidArgument" <=> BadInitInput)
  /\ (i_pc = "idle" /\ i_ret = "InvalidArgument") =>
       /\ i_calls = <<>>
       /\ ~interrupt_lock_
       /\ initialized_ = i_entry_init
  /\ (BadInitInput /\ ~in_dtor) => i_pc = "idle"
  /\ (~config_.usart_base \/ ~config_.dma_base \/ config_.baud_rate = 0) =>
       /\ hw = HwOff
       /\ ~uart_dma_handle_
       /\ ~initialized_

\* Init was rejected only because the DMA-controller handle is null.
C9_Witness ==
  /\ i_pc = "idle"
  /\ i_ret = "InvalidArgument"
  /\ i_srcclk = 1
  /\ config_ = [usart_base |-> TRUE, dma_base |-> FALSE, baud_rate |-> 1]
  /\ hw = HwOff
\* Init has returned Internal after USART_TransferCreateHandleDMA failed.
BindFailed ==
  /\ i_pc = "idle"
  /\ i_ret = "Internal"
  /\ \E k \in 1..Len(i_calls) : i_calls[k] = "USART_TransferCreateHandleDMA"

\* The calls Deinit makes, in order.
DeinitCalls ==
  <<"lock", "DMA_DisableChannel", "DMA_DisableChannel", "unlock",
    "USART_Deinit">>

\* C10 as stated: after a failed binding step both DMA channels are disabled,
\* the serial engine is deinitialized, nothing that Init enabled is left
\* enabled, and an initialized flag that was false is still false.
C10_NothingLeftEnabled ==
  BindFailed =>
    /\ ~hw.tx_ch /\ ~hw.rx_ch
    /\ ~hw.usart
    /\ ~hw.mux_rx /\ ~hw.mux_tx
    /\ ~i_entry_init => ~initialized_

\* C10 (amended): after a failed binding step Init has run Deinit as its last
\* calls, so both DMA channels are disabled and the serial engine is
\* deinitialized when Internal is returned, and the initialized flag is as it
\* was at entry; the two input-routing request signals that Init enabled stay
\* enabled, since Deinit does not touch them.
C10_BindFailureRollsBack ==
  BindFailed =>
    /\ ~hw.tx_ch /\ ~hw.rx_ch
    /\ ~hw.usart
    /\ hw.mux_rx /\ hw.mux_tx
    /\ initialized_ = i_entry_init
    /\ ~interrupt_lock_
    /\ Len(i_calls) >= Len(DeinitCalls) + 1
    /\ SubSeq(i_calls, Len(i_calls) - Len(DeinitCalls) + 1, Len(i_calls))
         = DeinitCalls
    /\ i_calls[Len(i_calls) - Len(DeinitCalls)]
         = "USART_TransferCreateHandleDMA"

\* A first Init on a valid configuration failed at the binding step.
C10_Witness ==
  /\ BindFailed
  /\ ~i_entry_init
  /\ ~initialized_
  /\ ~uart_dma_handle_

\* Init has returned Internal: USART_Init or the binding step failed.
InitFailedInHardware ==
  /\ i_pc = "idle"
  /\ i_ret = "Internal"

\* C11 as stated: every Init that returns Internal (the serial-engine
\* configuration step failed, or the binding step failed) has run Deinit as its
\* last calls before returning, and leaves neither the serial engine nor a DMA
\* channel enabled.
C11_EveryHardwareFailureTearsDown ==
  InitFailedInHardware =>
    /\ Len(i_calls) >= Len(DeinitCalls)
    /\ SubSeq(i_calls, Len(i_calls) - Len(DeinitCalls) + 1, Len(i_calls))
         = DeinitCalls
    /\ ~hw.usart
    /\ ~hw.tx_ch /\ ~hw.rx_ch

\* C12: the destructor runs Deinit (disable both DMA channels under the lock,
\* then deinitialize the serial engine) exactly when some Init call on the
\* instance has returned success; on an instance no Init call has succeeded on
\* (never initialized, or every Init failed) it returns at once, having made no
\* call and changed nothing.
C12_DestructorTearsDownIffInitialized ==
  /\ (in_dtor /\ ~init_ok_seen) =>
       /\ i_pc = "destroyed"
       /\ i_calls = <<>>
  /\ (in_dtor /\ init_ok_seen) =>
       /\ i_pc # "idle"
       /\ i_pc = "destroyed" =>
            /\ i_calls = DeinitCalls
            /\ ~hw.tx_ch /\ ~hw.rx_ch
            /\ ~hw.usart
            /\ ~interrupt_lock_

\* An instance whose only Init failed at the binding step has been destroyed
\* without a single call.
C12_Witness ==
  /\ i_pc = "destroyed"
  /\ i_ret = "Internal"
  /\ ~init_ok_seen
  /\ i_calls = <<>>
  /\ hw.mux_tx

\* C13: a DoRead call with a destination span of length N returns an OK status
\* that reports N bytes, for N = 0 as for N > 0, has stored nothing through the
\* span, and leaves the busy flag, the transmit record, the notification, the
\* initialized flag, the hardware, the transfer in flight and every caller of
\* Write and Init where they were, also in the middle of a write.
C13_ReadReportsLengthAndTouchesNothing ==
  [][(last_ignored' # last_ignored /\ last_ignored'.op = "DoRead") =>
       /\ last_ignored'.ret.status = "Ok"
       /\ last_ignored'.ret.size = last_ignored'.length
       /\ last_ignored'.stored = 0
       /\ UNCHANGED <<tx_data_, initialized_, uart_dma_handle_, hw,
                      interrupt_lock_, dma_inflight, tx_log, cb_owed,
                      n_release, n_acquire, crashed, writer_vars, init_vars>>
    ]_vars

\* A Read of a one-byte span has returned 1 and a multi-chunk write is in
\* flight past its first chunk.
C13_Witness ==
  /\ last_ignored.op = "DoRead"
  /\ last_ignored.length = 1
  /\ last_ignored.ret = [status |-> "Ok", size |-> 1]
  /\ tx_data_.busy
  /\ dma_inflight # None
  /\ tx_data_.tx_idx > 0

\* C14 as stated: in every reachable state the cursor is at most the length of
\* the stored buffer, and the callback's fatal check has not failed.
C14_CursorWithinBufferAlways ==
  /\ tx_data_.tx_idx <= tx_data_.buffer.size
  /\ crashed # "PW_CHECK"

\* A Write has stored its buffer and has not yet reset the cursor.
CursorStale == \E t \in Threads : w_pc[t] = "store_idx"

\* C14 (amended): a Write resets the cursor to 0 right after it has stored its
\* buffer; every other step leaves the cursor where it was or advances it, so
\* from the reset to the return of the call it never decreases; except between
\* the store of the buffer and the reset, where the cursor still holds the
\* final value of the write before, the cursor is at most the length of the
\* stored buffer; and the callback's fatal check never fails (the callback
\* runs once for each transfer that was started).
C14_CursorMonotoneWithinBuffer ==
  [][/\ ~CursorStale' => tx_data_'.tx_idx <= tx_data_'.buffer.size
     /\ crashed' # "PW_CHECK"
     /\ \A t \in Threads :
          (w_pc[t] = "store_idx" /\ w_pc'[t] # "store_idx") =>
            /\ w_pc'[t] = "trigger"
            /\ tx_data_'.tx_idx = 0
     /\ (\A t \in Threads : w_pc[t] = "store_idx" => w_pc'[t] = "store_idx") =>
          tx_data_'.tx_idx >= tx_data_.tx_idx
    ]_vars

\* Two callbacks into a five-byte write with chunks of two: the cursor is 4,
\* the last byte is in flight.
C14_Witness ==
  \E t \in Threads :
    /\ w_pc[t] = "acquire"
    /\ kUsartDmaMaxTransferCount = 2
    /\ tx_data_.buffer = [id |-> t, size |-> 5]
    /\ tx_data_.tx_idx = 4
    /\ dma_inflight = [buf |-> t, off |-> 4, len |-> 1]

\* C15: every call of USART_TransferSendDMA is made either by the writer
\* thread, for the chunk at offset 0 and with no transfer in flight, or by the
\* completion callback, for the chunk that begins where the transfer whose
\* completion it has just observed ended; so a chunk is never started while
\* the one before is in flight, and the transfer in flight is always the last
\* one started.
C15_OneTransferOutstanding ==
  [][/\ Len(tx_log') > Len(tx_log) =>
          LET start == tx_log'[Len(tx_log')]
          IN  \/ /\ \E t \in Threads :
                       w_pc[t] = "trigger" /\ w_pc'[t] = "acquire"
                  /\ Len(tx_log') = 1
                  /\ start[1] = 0
                  /\ dma_inflight = None
              \/ /\ w_pc' = w_pc
                  /\ Len(tx_log') >= 2
                  /\ dma_inflight # None
                  /\ start[1] = dma_inflight.off + dma_inflight.len
                  /\ start[1] > 0
                  /\ tx_data_'.tx_idx = start[1]
     /\ dma_inflight' # None =>
          /\ tx_log' # <<>>
          /\ dma_inflight'.off = tx_log'[Len(tx_log')][1]
          /\ dma_inflight'.len = tx_log'[Len(tx_log')][2]
          /\ dma_inflight'.buf = tx_log'[Len(tx_log')][3]
    ]_vars

\* The callback has started the second chunk of a write: it is in flight and
\* the first one is not.
C15_Witness ==
  \E t \in Threads :
    /\ w_pc[t] = "acquire"
    /\ Len(tx_log) = 2
    /\ dma_inflight # None
    /\ dma_inflight.off = tx_log[2][1]
    /\ dma_inflight.off > 0
    /\ dma_inflight.buf = t

\* C16: a completion callback invoked with a status other than transmit-idle
\* leaves the cursor, the chunk descriptor, the buffer reference, the busy flag
\* and the notification unchanged, starts no transfer, completes none, does
\* not abort, and moves no caller, whatever state the driver is in.
C16_OtherStatusIgnored ==
  [][(last_ignored' # last_ignored
        /\ last_ignored'.op = "TxRxCompletionCallback") =>
       /\ last_ignored'.status \in CallbackStatuses \ {"kStatus_USART_TxIdle"}
       /\ UNCHANGED <<tx_data_, dma_inflight, tx_log, cb_owed, n_release,
                      n_acquire, crashed, initialized_, uart_dma_handle_, hw,
                      interrupt_lock_, writer_vars, init_vars>>
    ]_vars

\* A receive-completion callback has come and gone while the second chunk of
\* a write is in flight.
C16_Witness ==
  /\ last_ignored.op = "TxRxCompletionCallback"
  /\ last_ignored.status = "kStatus_USART_RxIdle"
  /\ tx_data_.busy
  /\ ~tx_data_.notification
  /\ dma_inflight # None
  /\ dma_inflight.off > 0
  /\ tx_data_.tx_idx = dma_inflight.off

\* Thread t has claimed the busy flag and the completion of its write has not
\* been signalled: it is on its way to the wait or blocked in it.
Unfinished(t) ==
  /\ w_pc[t] \in {"store_buffer", "store_idx", "trigger", "acquire"}
  /\ ~tx_data_.notification

\* C17: if the completion callback runs only finitely often (the hardware
\* stops reporting completions) and a Write is still unfinished after its last
\* run, that Write never returns and the busy flag stays true for ever;
\* the wait ends in no other way than by the signal of the callback; and as
\* long as the Write has not been signalled every other Write with a
\* non-empty buffer that reaches the busy test returns FailedPrecondition.
C17_NoTimeoutNoCancellation ==
  /\ \A t \in Threads :
       (<>[][~TxRxCompletionCallback]_vars /\ []<>Unfinished(t)) =>
         <>[](Unfinished(t) /\ tx_data_.busy)
  /\ [][\A t \in Threads :
          /\ (w_pc[t] = "acquire" /\ w_pc'[t] # "acquire") =>
               /\ tx_data_.notification
               /\ n_release = 1
          /\ \A u \in Threads :
               (Unfinished(t) /\ w_pc[u] = "exchange"
                  /\ w_pc'[u] # "exchange") =>
                 /\ w_pc'[u] = "idle"
                 /\ w_ret'[u] = "FailedPrecondition"
       ]_vars

\* A write is blocked with its second chunk in flight on a DMA channel that a
\* failed re-Init has disabled, and another thread's Write was turned away.
C17_Witness ==
  \E t, u \in Threads :
    /\ t # u
    /\ w_pc[t] = "acquire"
    /\ ~tx_data_.notification
    /\ tx_data_.busy
    /\ dma_inflight # None
    /\ dma_inflight.off > 0
    /\ ~hw.tx_ch
    /\ i_pc = "idle"
    /\ w_pc[u] = "idle"
    /\ w_ret[u] = "FailedPrecondition"

\* The vendor calls that change configuration registers shared between
\* peripherals, and the calls on the serial engine alone.
SharedRegisterCalls ==
  {"INPUTMUX_EnableSignal", "DMA_EnableChannel", "DMA_DisableChannel"}
SerialEngineCalls ==
  {"USART_Init", "USART_TransferCreateHandleDMA", "USART_Deinit"}

\* Where the lifecycle thread is between lock() and unlock().
InCriticalSection ==
  i_pc \in {"inputmux", "enable_ch", "create_handles", "unlock",
            "deinit_disable", "deinit_unlock"}

\* C18: every INPUTMUX_EnableSignal, DMA_EnableChannel and DMA_DisableChannel
\* call is made with the interrupt lock held, and the routing and channel
\* enables change in no other step; USART_Init, the binding and USART_Deinit
\* are made with the lock released (USART_Deinit after Deinit's unlock); the
\* lock is held exactly between lock() and unlock() of Init or Deinit, so it
\* is free whenever Init or the destructor has returned; and a step that takes
\* or releases it is a step of Init or Deinit, never one of a Write, a Read or
\* the completion callback.
C18_RegistersChangeUnderLock ==
  [][/\ \A k \in (Len(i_calls) + 1)..Len(i_calls') :
          /\ i_calls'[k] \in SharedRegisterCalls =>
               interrupt_lock_ /\ interrupt_lock_'
          /\ i_calls'[k] \in SerialEngineCalls =>
               ~interrupt_lock_ /\ ~interrupt_lock_'
          /\ i_calls'[k] = "USART_Deinit" =>
               /\ Len(i_calls) >= 2
               /\ i_calls[Len(i_calls)] = "unlock"
               /\ i_calls[Len(i_calls) - 1] = "DMA_DisableChannel"
     /\ <<hw.mux_rx, hw.mux_tx, hw.tx_ch, hw.rx_ch>>'
           # <<hw.mux_rx, hw.mux_tx, hw.tx_ch, hw.rx_ch>> =>
          /\ interrupt_lock_ /\ interrupt_lock_'
          /\ Len(i_calls') > Len(i_calls)
          /\ i_calls'[Len(i_calls')] \in SharedRegisterCalls
     /\ interrupt_lock_' <=> InCriticalSection'
     /\ i_pc' \in {"idle", "destroyed"} => ~interrupt_lock_'
     /\ interrupt_lock_' # interrupt_lock_ =>
          /\ i_pc' # i_pc
          /\ UNCHANGED <<writer_vars, tx_vars, last_ignored, crashed>>
     /\ (writer_vars' # writer_vars \/ tx_vars' # tx_vars
           \/ last_ignored' # last_ignored) =>
          ~interrupt_lock_ /\ ~interrupt_lock_'
    ]_vars

\* The destructor is inside Deinit's critical section and has just disabled
\* the channels; the serial engine is still on.
C18_Witness ==
  /\ in_dtor
  /\ i_pc = "deinit_unlock"
  /\ interrupt_lock_
  /\ ~hw.tx_ch /\ ~hw.rx_ch
  /\ hw.usart
  /\ last_ignored.op = "DoRead"

\* The calls of an Init that gets as far as setting initialized_, in order.
InitSuccessCalls ==
  <<"USART_Init", "lock", "INPUTMUX_EnableSignal", "INPUTMUX_EnableSignal",
    "DMA_EnableChannel", "DMA_EnableChannel", "DMA_CreateHandle",
    "DMA_CreateHandle", "unlock", "USART_TransferCreateHandleDMA">>

\* C19: initialized_ is false after construction; the only step that makes it
\* true is the last step of an Init call, the one that returns OkStatus(), made
\* after USART_Init, the channel enables and the binding have all succeeded;
\* an Init that returns InvalidArgument or Internal leaves the flag as it was
\* at entry, so false on an instance no Init has succeeded on; and no step of
\* any operation (Init, Deinit, destructor, Write, callback) makes it false
\* again.
C19_InitializedFlagLifecycle ==
  /\ ~initialized_
  /\ [][/\ (~initialized_ /\ initialized_') =>
            /\ i_pc = "set_initialized" /\ i_pc' = "idle"
            /\ i_ret' = "Ok"
            /\ i_calls = InitSuccessCalls
            /\ hw.usart /\ hw.tx_ch /\ hw.rx_ch
            /\ hw.mux_rx /\ hw.mux_tx
            /\ uart_dma_handle_
        /\ initialized_ => initialized_'
        /\ (i_pc # "idle" /\ i_pc' = "idle") =>
            /\ i_ret' = "Ok" => initialized_'
            /\ i_ret' \in {"InvalidArgument", "Internal"} =>
                 initialized_' = i_entry_init'
        /\ (i_pc = "idle" /\ i_pc' = "idle" /\ i_ret' # i_ret) =>
            /\ i_ret' = "InvalidArgument"
            /\ initialized_' = initialized_
        /\ initialized_' = init_ok_seen'
       ]_vars

\* An initialized instance on which a later Init failed at the binding step:
\* Deinit has run and the flag is still true.
C19_Witness ==
  /\ BindFailed
  /\ i_entry_init
  /\ initialized_
  /\ ~hw.tx_ch /\ ~hw.rx_ch
  /\ ~hw.usart

\* C20: a signal the callback gives before the writer has consumed it, be it
\* before the writer has even begun to wait, is kept: the notification stays
\* set until the writer's acquire() takes it, and under fair scheduling of the
\* writer that acquire() returns and the Write returns success.
C20_NoLostWakeup ==
  /\ [][(tx_data_.notification /\ ~tx_data_'.notification) =>
          \E t \in Threads :
            /\ w_pc[t] = "acquire" /\ w_pc'[t] = "store_busy"
            /\ tx_data_.buffer.id = t
       ]_vars
  /\ \A t \in Threads :
       (w_pc[t] = "acquire" /\ tx_data_.notification) ~>
         (w_pc[t] = "idle" /\ w_ret[t] = "Ok")

\* The only chunk of a one-byte write has completed and signalled before the
\* writer's acquire() has taken the signal; another thread is at the busy test.
C20_Witness ==
  \E t, u \in Threads :
    /\ t # u
    /\ w_pc[t] = "acquire"
    /\ tx_data_.notification
    /\ tx_data_.buffer = [id |-> t, size |-> 1]
    /\ tx_log = <<<<0, 1, t>>>>
    /\ n_acquire = 0
    /\ w_pc[u] = "exchange"

\* C21: the notification holds a signal exactly when one release() of the
\* current write has not been matched by its acquire(), so never more than
\* one; release() is never called while a signal is pending; no signal is
\* pending while the busy flag is false; and so a Write that claims the flag
\* finds the notification clear, and the signal its acquire() consumes was
\* released after its own claim.
C21_NoStaleSignal ==
  /\ [](/\ n_release - n_acquire \in {0, 1}
        /\ tx_data_.notification <=> (n_release - n_acquire = 1)
        /\ ~tx_data_.busy => ~tx_data_.notification)
  /\ [][/\ (n_release' = n_release + 1) =>
            /\ ~tx_data_.notification
            /\ tx_data_'.notification
        /\ (~tx_data_.busy /\ tx_data_'.busy) =>
            /\ ~tx_data_.notification
            /\ ~tx_data_'.notification
            /\ n_release' = 0
        /\ (n_acquire' = n_acquire + 1) =>
            /\ tx_data_.notification
            /\ n_release = 1 /\ n_acquire = 0
            /\ \E t \in Threads :
                 /\ w_pc[t] = "acquire" /\ w_pc'[t] = "store_busy"
                 /\ tx_data_.buffer.id = t
       ]_vars

\* A second write waits with its own signal pending: another thread's write
\* has returned success before, and this write's last chunk has completed.
C21_Witness ==
  \E t, u \in Threads :
    /\ t # u
    /\ w_ret[u] = "Ok" /\ w_pc[u] = "idle"
    /\ w_pc[t] = "acquire"
    /\ tx_data_.buffer.id = t
    /\ tx_data_.notification
    /\ n_release = 1 /\ n_acquire = 0
    /\ Len(tx_log) >= 2

\* C22: from construction until the destructor is entered, whenever
\* initialized_ is true both DMA channels are enabled and the serial engine is
\* configured, also after an Init on an initialized instance that failed at
\* the binding step.
C22_InitializedMeansHardwareUp ==
  (initialized_ /\ ~in_dtor) =>
    /\ hw.tx_ch /\ hw.rx_ch
    /\ hw.usart

\* C23: while no Init call has returned OkStatus() (none was made, or every
\* one failed), a Write of a non-empty buffer starts no hardware transfer and
\* does not block forever.  The wait in acquire() ends only through the
\* release() that the completion of a started transfer makes, so a Write that
\* starts no transfer and does not block forever is one that is never found
\* waiting in acquire() without the signal.
C23_WriteNeedsInitialized ==
  ~init_ok_seen =>
    /\ dma_inflight = None
    /\ \A t \in Threads : w_pc[t] = "acquire" => tx_data_.notification
====
